---- MODULE Spec2Model ----
(***************************************************************************)
(* The user-account backend: the three request handlers of                 *)
(* controllers/userController.js (registerUser, loginUser, getAllUsers)    *)
(* running concurrently over the users table of models/userModel.js.       *)
(*                                                                         *)
(* A handler is an async function: it runs from one await to the next      *)
(* without interruption, and other handlers run in between.  One action    *)
(* models one such segment, so the interleavings of the model are those of *)
(* the event loop and the database.                                        *)
(*                                                                         *)
(* Strings are sequences of one-character strings.                         *)
(***************************************************************************)
EXTENDS Bags, FiniteSets, Integers, Sequences, TLC

(***************************************************************************)
(* Bounds of the model.                                                    *)
(***************************************************************************)
\* Requests being handled at the same time.
MaxInFlight == 2
\* Last value of the wall clock (its ticks between stamps abstracted).
MaxClock == 1

(***************************************************************************)
(* Values.                                                                 *)
(***************************************************************************)
\* A field absent from req.body (JavaScript undefined).
Undefined == <<"undefined">>
\* JavaScript null: findOne that finds no row, a local not yet assigned.
Null == [null |-> TRUE]
\* The empty string.
Empty == <<>>

bob == <<"b", "o", "b">>
amy == <<"a", "m", "y">>
ab == <<"a", "b">>
bobAtX == <<"b", "@", "x", ".", "i", "o">>
amyAtX == <<"a", "@", "x", ".", "i", "o">>
noAt == <<"b", ".", "i", "o">>
noTld == <<"b", "@", "x">>
pwSecret == <<"s", "e", "c", "r", "e", "t">>
pwHunter == <<"h", "u", "n", "t", "e", "r">>
pwShort == <<"1", "2", "3", "4", "5">>

\* The inputs of the requests: bodies that pass every check (two usernames,
\* each with its password, paired with two emails), and bodies that differ
\* from BaseBody in one field, one for each way a check can fail.
BaseBody == [username |-> bob, email |-> bobAtX, password |-> pwSecret]
RegisterBodies ==
    [username : {bob}, email : {bobAtX, amyAtX}, password : {pwSecret}]
    \cup [username : {amy}, email : {bobAtX, amyAtX}, password : {pwHunter}]
    \cup {[BaseBody EXCEPT !.username = u] : u \in {Undefined, ab}}
    \cup {[BaseBody EXCEPT !.email = e] : e \in {Empty, noAt, noTld}}
    \cup {[BaseBody EXCEPT !.password = p] : p \in {Undefined, pwShort}}
LoginBodies ==
    [email : {bobAtX, amyAtX}, password : {pwSecret, pwHunter}]
    \cup {[email |-> Undefined, password |-> pwSecret],
          [email |-> bobAtX, password |-> Empty]}

\* The salt bcrypt draws.
Salts == {"s1"}

\* process.env.JWT_SECRET of a configured deployment.
JWT_SECRET == "jwt-secret"

\* The errors a call on the model can throw.
ConnectionError == "SequelizeConnectionError"
ValidationError == "SequelizeValidationError"
UniqueConstraintError == "SequelizeUniqueConstraintError"
NoError == "none"

VARIABLES
    users,        \* the rows of table users
    nextId,       \* the serial of the primary key id
    now,          \* the wall clock: the time of the last stamp given
    reqs,         \* the requests being handled: a bag of handler activations
    createdFrom,  \* history: id of a row |-> body of the request that created it
    answered201   \* history: ids of the rows whose registration was answered 201

vars == <<users, nextId, now, reqs, createdFrom, answered201>>

(***************************************************************************)
(* Program constants.                                                      *)
(***************************************************************************)
MinPasswordLength == 6
UsernameMinLen == 3
UsernameMaxLen == 100

(***************************************************************************)
(* Pure functions of the controller and of the model.                      *)
(***************************************************************************)
\* JavaScript !x for a string field: absent or the empty string.
Falsy(x) == x = Undefined \/ x = Empty

\* [^\s@]: a character that is neither white space nor @.
PlainChar(c) == c \notin {" ", "@"}

\* /^[^\s@]+@[^\s@]+\.[^\s@]+$/.test(s)
emailRegex(s) ==
    \E i, j \in 1..Len(s) :
        /\ s[i] = "@"
        /\ s[j] = "."
        /\ 1 < i
        /\ i + 1 < j
        /\ j < Len(s)
        /\ \A k \in 1..Len(s) : k # i => PlainChar(s[k])

\* validate: { isEmail: true }: local@domain with a top-level domain of two or
\* more characters.
isEmail(s) ==
    \E i, j \in 1..Len(s) :
        /\ s[i] = "@"
        /\ s[j] = "."
        /\ 1 < i
        /\ i + 1 < j
        /\ j + 1 < Len(s)
        /\ \A k \in 1..Len(s) : k # i => PlainChar(s[k])
        /\ \A k \in (j + 1)..Len(s) : s[k] # "."

\* validate: { len: [3, 100] }
lenOk(s) == UsernameMinLen <= Len(s) /\ Len(s) <= UsernameMaxLen

\* The validation Sequelize runs on an instance before it is inserted.
Validates(username, email) == lenOk(username) /\ isEmail(email)

\* bcrypt.hash(password, 10) with the salt it drew: "$2a$10$" salt digest.
bcryptHash(password, salt) == <<"$2a$10$", salt>> \o password

\* Mutant: the password is compared with the hash as it is.
bcryptCompare_Plain(password, hash) == hash = password

\* Mutant: the password is not compared.
bcryptCompare_Always(password, hash) == TRUE

\* bcrypt.compare(password, hash): hash the password with the version,
\* rounds and salt the stored hash begins with, and compare.
bcryptCompare(password, hash) ==
    /\ Len(hash) >= 2
    /\ hash = <<hash[1], hash[2]>> \o password

\* jwt.sign(payload, secret, { expiresIn: '24h' })
jwtSign(payload, key) ==
    [payload |-> payload, expiresIn |-> "24h", signedWith |-> key]

(***************************************************************************)
(* The users table (UserModel).                                            *)
(***************************************************************************)
\* Mutant: the table has no unique index.
UniqueViolation_NoIndex(username, email) == FALSE

\* unique: true on username and on email: the insert of a row with this
\* username and this email is refused.
UniqueViolation(username, email) ==
    \E u \in users : u.username = username \/ u.email = email

\* Mutant: the where clause is lost, any row is found.
findUserByEmail_AnyRow(email) ==
    IF users # {} THEN CHOOSE u \in users : TRUE ELSE Null

\* User.findOne({ where: { email } })
findUserByEmail(email) ==
    IF \E u \in users : u.email = email
    THEN CHOOSE u \in users : u.email = email
    ELSE Null

\* User.findOne({ where: { username } })
findUserByUsername(username) ==
    IF \E u \in users : u.username = username
    THEN CHOOSE u \in users : u.username = username
    ELSE Null

\* Mutant: the attributes option is lost, whole rows are returned.
ListedAttributes_All(u) == u

\* attributes: ['id', 'username', 'email', 'createdAt']
ListedAttributes(u) ==
    [id |-> u.id, username |-> u.username, email |-> u.email,
     createdAt |-> u.createdAt]

\* Mutant: the order is ascending.
OrderedBy_Asc(s) == \A i, j \in 1..Len(s) : i < j => s[i].createdAt <= s[j].createdAt

\* order: [['createdAt', 'DESC']]
OrderedBy(s) == \A i, j \in 1..Len(s) : i < j => s[i].createdAt >= s[j].createdAt

\* The results User.findAll can return: every row once, in the order asked;
\* rows of equal createdAt come in either order.
findAllResults ==
    LET rows == {ListedAttributes(u) : u \in users}
        n == Cardinality(rows)
    IN {s \in [1..n -> rows] :
            /\ \A i, j \in 1..n : i # j => s[i] # s[j]
            /\ OrderedBy(s)}

(***************************************************************************)
(* Handler activations.                                                    *)
(***************************************************************************)
\* A handler that has just been called with req.body = body.  The fields
\* after pc are its locals; resp is what it has sent; err is history: the
\* error a call on the model threw.
Activation(kind, body) ==
    [kind |-> kind, body |-> body, pc |-> "called",
     hashedPassword |-> Empty, createdAt |-> 0, newUser |-> Null,
     list |-> <<>>, resp |-> Null, err |-> NoError]

\* res.status(status).json(body)
Send(r, status, body) ==
    [r EXCEPT !.pc = "done", !.resp = [status |-> status, body |-> body]]

\* A catch block that logs the error and sends no response.
Caught_Swallow(r, error, body) == [r EXCEPT !.err = error]

\* The handler's catch block: log the error, answer 500 with body.
Caught(r, error, body) == [Send(r, 500, body) EXCEPT !.err = error]

\* A handler that has sent its response returns in the same turn of the event
\* loop: when the next turn starts, only the activations that wait at an
\* await are left.  reqs keeps the one that responded until then.
Live == [r \in {x \in BagToSet(reqs) : x.pc # "done"} |-> reqs[r]]

\* A turn of activation r, which goes on as r2.
Replace(r, r2) == reqs' = (Live (-) SetToBag({r})) (+) SetToBag({r2})

\* The activations of handler kind that wait at pc.
Handling(kind, pc) == {r \in BagToSet(reqs) : r.kind = kind /\ r.pc = pc}

\* A request can be accepted: the handler that responded has returned, the
\* turn is over.
Accepting == Live = reqs /\ BagCardinality(reqs) < MaxInFlight

MissingFieldsBody == [error |-> "All fields are required (username, email, password)"]
InvalidEmailBody == [error |-> "Please provide a valid email address"]
ShortPasswordBody == [error |-> "Password must be at least 6 characters long"]
EmailTakenBody == [error |-> "Email is already registered"]
UsernameTakenBody == [error |-> "Username is already taken"]
LoginMissingBody == [error |-> "Email and password are required"]
UnknownEmailBody == [error |-> "Invalid email or password"]
WrongPasswordBody == [error |-> "Invalid email or password"]

\* The bodies the catch blocks send, given the error caught.
RegistrationErrorBody(error) ==
    [error |-> "Server error during registration. Please try again."]
LoginErrorBody(error) ==
    [error |-> "Server error during login. Please try again."]
\* Mutant: the catch block sends the error it caught.
FetchErrorBody_Leak(error) == [error |-> error, users |-> <<>>, count |-> 0]

FetchErrorBody(error) ==
    [error |-> "Error retrieving users. Please try again later.",
     users |-> <<>>, count |-> 0]

\* The user object of the 201 response.
RegisteredUser(newUser) ==
    [id |-> newUser.id, username |-> newUser.username, email |-> newUser.email,
     createdAt |-> newUser.createdAt]

\* The payload of the token and the user object of the 200 login response.
TokenPayload(user) ==
    [userId |-> user.id, email |-> user.email, username |-> user.username]
LoggedInUser(user) ==
    [id |-> user.id, username |-> user.username, email |-> user.email]

(***************************************************************************)
(* registerUser                                                            *)
(***************************************************************************)
\* The synchronous checks of the body: the response they send, or Null.
RegisterValidation(body) ==
    IF Falsy(body.username) \/ Falsy(body.email) \/ Falsy(body.password)
    THEN [status |-> 400, body |-> MissingFieldsBody]
    ELSE IF ~emailRegex(body.email)
    THEN [status |-> 400, body |-> InvalidEmailBody]
    ELSE IF Len(body.password) < MinPasswordLength
    THEN [status |-> 400, body |-> ShortPasswordBody]
    ELSE Null

\* A request arrives; the handler runs to its first await.
RegisterUser(body) ==
    /\ Accepting
    /\ LET r == Activation("register", body)
           v == RegisterValidation(body)
       IN reqs' = reqs (+) SetToBag({
              IF v # Null THEN Send(r, v.status, v.body)
              ELSE [r EXCEPT !.pc = "findUserByEmail"]})
    /\ UNCHANGED <<users, nextId, now, createdFrom, answered201>>

\* await UserModel.findUserByEmail(email) returns or throws.
RegisterFindUserByEmail(r) ==
    /\ r \in Handling("register", "findUserByEmail")
    /\ \/ Replace(r, IF findUserByEmail(r.body.email) # Null
                      THEN Send(r, 409, EmailTakenBody)
                      ELSE [r EXCEPT !.pc = "findUserByUsername"])
       \/ Replace(r, Caught(r, ConnectionError, RegistrationErrorBody(ConnectionError)))
    /\ UNCHANGED <<users, nextId, now, createdFrom, answered201>>

\* Mutant: the password is stored as given.
PasswordToStore_Plain(password, salt) == password

\* The password the handler passes to createUser.
PasswordToStore(password, salt) == bcryptHash(password, salt)

\* UserModel.createUser(username, email, hashedPassword) up to its INSERT:
\* Sequelize validates the instance, throwing if it is invalid, and stamps it
\* with the time t it reads.
CreateUserCall(r, hashedPassword, t) ==
    IF Validates(r.body.username, r.body.email)
    THEN [r EXCEPT !.pc = "createUser", !.hashedPassword = hashedPassword,
                   !.createdAt = t]
    ELSE Caught([r EXCEPT !.hashedPassword = hashedPassword],
                ValidationError, RegistrationErrorBody(ValidationError))

\* await UserModel.findUserByUsername(username) returns or throws.  When no
\* user is found the handler hashes the password and calls createUser;
\* bcrypt.hash touches no shared state, so its await is not a separate step.
\* The clock read for the stamp is the last stamp given or one later.
RegisterFindUserByUsername(r) ==
    /\ r \in Handling("register", "findUserByUsername")
    /\ \/ /\ findUserByUsername(r.body.username) # Null
          /\ Replace(r, Send(r, 409, UsernameTakenBody))
          /\ UNCHANGED now
       \/ /\ findUserByUsername(r.body.username) = Null
          /\ \E salt \in Salts, t \in {now, now + 1} :
                /\ t <= MaxClock
                /\ now' = t
                /\ Replace(r, CreateUserCall(r,
                                  PasswordToStore(r.body.password, salt), t))
       \/ /\ Replace(r, Caught(r, ConnectionError,
                               RegistrationErrorBody(ConnectionError)))
          /\ UNCHANGED now
    /\ UNCHANGED <<users, nextId, createdFrom, answered201>>

\* The row the INSERT of r adds.
NewRow(r) ==
    [id |-> nextId, username |-> r.body.username, email |-> r.body.email,
     password |-> r.hashedPassword, createdAt |-> r.createdAt,
     updatedAt |-> r.createdAt]

\* Mutant: the INSERT overwrites the rows it conflicts with.
RegisterCreateUser_Upsert(r) ==
    /\ r \in Handling("register", "createUser")
    /\ users' = {u \in users : /\ u.username # r.body.username
                                /\ u.email # r.body.email} \cup {NewRow(r)}
    /\ nextId' = nextId + 1
    /\ createdFrom' = createdFrom @@ (nextId :> r.body)
    /\ Replace(r, [r EXCEPT !.pc = "created", !.newUser = NewRow(r)])
    /\ UNCHANGED <<now, answered201>>

\* The database runs the INSERT: the row is stored, or a unique index
\* refuses it, or the connection fails; a refusal is thrown to the handler.
RegisterCreateUser(r) ==
    /\ r \in Handling("register", "createUser")
    /\ \/ /\ ~UniqueViolation(r.body.username, r.body.email)
          /\ users' = users \cup {NewRow(r)}
          /\ nextId' = nextId + 1
          /\ createdFrom' = createdFrom @@ (nextId :> r.body)
          /\ Replace(r, [r EXCEPT !.pc = "created", !.newUser = NewRow(r)])
          /\ UNCHANGED <<now, answered201>>
       \/ /\ UniqueViolation(r.body.username, r.body.email)
          /\ Replace(r, Caught(r, UniqueConstraintError,
                               RegistrationErrorBody(UniqueConstraintError)))
          /\ UNCHANGED <<users, nextId, now, createdFrom, answered201>>
       \/ /\ Replace(r, Caught(r, ConnectionError,
                               RegistrationErrorBody(ConnectionError)))
          /\ UNCHANGED <<users, nextId, now, createdFrom, answered201>>

\* await UserModel.createUser(...) returns newUser; the handler answers 201.
RegisterRespond(r) ==
    /\ r \in Handling("register", "created")
    /\ Replace(r, Send(r, 201, [message |-> "User registered successfully",
                               user |-> RegisteredUser(r.newUser)]))
    /\ answered201' = answered201 \cup {r.newUser.id}
    /\ UNCHANGED <<users, nextId, now, createdFrom>>

(***************************************************************************)
(* loginUser                                                               *)
(***************************************************************************)
\* The synchronous check of the body: the response it sends, or Null.
LoginValidation(body) ==
    IF Falsy(body.email) \/ Falsy(body.password)
    THEN [status |-> 400, body |-> LoginMissingBody]
    ELSE Null

\* A request arrives; the handler runs to its first await.
LoginUser(body) ==
    /\ Accepting
    /\ LET r == Activation("login", body)
           v == LoginValidation(body)
       IN reqs' = reqs (+) SetToBag({
              IF v # Null THEN Send(r, v.status, v.body)
              ELSE [r EXCEPT !.pc = "findUserByEmail"]})
    /\ UNCHANGED <<users, nextId, now, createdFrom, answered201>>

\* What the handler does with the user findUserByEmail returned: the two
\* 401s, or the token.
LoginAnswer(r, user) ==
    IF user = Null
    THEN Send(r, 401, UnknownEmailBody)
    ELSE IF ~bcryptCompare(r.body.password, user.password)
    THEN Send(r, 401, WrongPasswordBody)
    ELSE Send(r, 200, [message |-> "Login successful",
                       token |-> jwtSign(TokenPayload(user), JWT_SECRET),
                       user |-> LoggedInUser(user)])

\* await UserModel.findUserByEmail(email) returns or throws; bcrypt.compare
\* and jwt.sign touch no shared state.
LoginFindUserByEmail(r) ==
    /\ r \in Handling("login", "findUserByEmail")
    /\ \/ Replace(r, LoginAnswer(r, findUserByEmail(r.body.email)))
       \/ Replace(r, Caught(r, ConnectionError, LoginErrorBody(ConnectionError)))
    /\ UNCHANGED <<users, nextId, now, createdFrom, answered201>>

(***************************************************************************)
(* getAllUsers                                                             *)
(***************************************************************************)
\* A request arrives; the handler runs to its await.
GetAllUsers ==
    /\ Accepting
    /\ reqs' = reqs (+) SetToBag({[Activation("list", [none |-> TRUE])
                                      EXCEPT !.pc = "findAll"]})
    /\ UNCHANGED <<users, nextId, now, createdFrom, answered201>>

\* The body of the 200 response: users || [], users?.length || 0.
UsersBody(list) ==
    [users |-> list, count |-> Len(list), message |-> "Users retrieved successfully"]

\* await UserModel.getAllUsers() returns the rows the SELECT found, and the
\* handler answers 200; or the connection fails.
GetAllUsersFindAll(r) ==
    /\ r \in Handling("list", "findAll")
    /\ \/ \E s \in findAllResults :
             Replace(r, Send([r EXCEPT !.list = s], 200, UsersBody(s)))
       \/ Replace(r, Caught(r, ConnectionError, FetchErrorBody(ConnectionError)))
    /\ UNCHANGED <<users, nextId, now, createdFrom, answered201>>

(***************************************************************************)
(* The environment.                                                        *)
(***************************************************************************)
\* The handler returns after sending its response: the activation is gone.
Finish(r) ==
    /\ r \in BagToSet(reqs)
    /\ r.pc = "done"
    /\ reqs' = reqs (-) SetToBag({r})
    /\ UNCHANGED <<users, nextId, now, createdFrom, answered201>>

Init ==
    /\ users = {}
    /\ nextId = 1
    /\ now = 0
    /\ reqs = EmptyBag
    /\ createdFrom = <<>>
    /\ answered201 = {}

Next ==
    \/ \E body \in RegisterBodies : RegisterUser(body)
    \/ \E r \in BagToSet(reqs) : RegisterFindUserByEmail(r)
    \/ \E r \in BagToSet(reqs) : RegisterFindUserByUsername(r)
    \/ \E r \in BagToSet(reqs) : RegisterCreateUser(r)
    \/ \E r \in BagToSet(reqs) : RegisterRespond(r)
    \/ \E body \in LoginBodies : LoginUser(body)
    \/ \E r \in BagToSet(reqs) : LoginFindUserByEmail(r)
    \/ GetAllUsers
    \/ \E r \in BagToSet(reqs) : GetAllUsersFindAll(r)
    \/ \E r \in BagToSet(reqs) : Finish(r)

Spec == Init /\ [][Next]_vars

(***************************************************************************)
(* Scheduling.  A query sent to the database is eventually answered and    *)
(* the event loop eventually runs the continuation of every settled await, *)
(* whatever other requests arrive meanwhile; a handler that has sent its    *)
(* response returns.                                                       *)
(***************************************************************************)
\* The step of activation r: the await it waits at settles and the handler
\* runs on.
HandlerStep(r) ==
    /\ BagIn(r, reqs)
    /\ \/ RegisterFindUserByEmail(r)
       \/ RegisterFindUserByUsername(r)
       \/ RegisterCreateUser(r)
       \/ RegisterRespond(r)
       \/ LoginFindUserByEmail(r)
       \/ GetAllUsersFindAll(r)

\* The activation of handler kind called with body, waiting at pc.
Waiting(kind, body, pc) == [Activation(kind, body) EXCEPT !.pc = pc]

\* The register activations whose INSERT is in flight.
Inserting ==
    {[Waiting("register", b, "createUser") EXCEPT
          !.hashedPassword = bcryptHash(b.password, salt), !.createdAt = t] :
        b \in {x \in RegisterBodies :
                  RegisterValidation(x) = Null /\ Validates(x.username, x.email)},
        salt \in Salts, t \in 0..MaxClock}

\* Every value of an activation that waits at an await.
WaitingActivations ==
    {Waiting("register", b, pc) :
        b \in {x \in RegisterBodies : RegisterValidation(x) = Null},
        pc \in {"findUserByEmail", "findUserByUsername"}}
    \cup Inserting
    \cup {[c EXCEPT !.pc = "created",
                    !.newUser = [id |-> id, username |-> c.body.username,
                                 email |-> c.body.email,
                                 password |-> c.hashedPassword,
                                 createdAt |-> c.createdAt,
                                 updatedAt |-> c.createdAt]] :
            c \in Inserting,
            id \in 1..Cardinality({b.email : b \in RegisterBodies})}
    \cup {Waiting("login", b, "findUserByEmail") :
            b \in {x \in LoginBodies : LoginValidation(x) = Null}}
    \cup {Waiting("list", [none |-> TRUE], "findAll")}

Fairness ==
    /\ \A a \in WaitingActivations : WF_vars(HandlerStep(a))
    /\ WF_vars(\E r \in BagToSet(reqs) : Finish(r))

SpecFair == Spec /\ Fairness

(***************************************************************************)
(* Vocabulary of the properties.                                           *)
(***************************************************************************)
\* The activations of handler kind that have just sent their response.
Answered(kind) == {r \in BagToSet(reqs) : r.kind = kind /\ r.pc = "done"}

\* Input that registration is to reject as invalid: a missing or empty field,
\* an email not of the form local@domain.tld, a password shorter than 6
\* characters, a username outside the length range 3..100.
InvalidInput(body) ==
    \/ body.username \in {Undefined, Empty}
    \/ body.email \in {Undefined, Empty}
    \/ body.password \in {Undefined, Empty}
    \/ ~emailRegex(body.email)
    \/ Len(body.password) < 6
    \/ Len(body.username) < 3
    \/ Len(body.username) > 100

\* A stored user other than the one activation r created has the email or
\* the username of r's request.
TakenByAnother(r) ==
    \E u \in users : /\ u # r.newUser
                      /\ (u.email = r.body.email \/ u.username = r.body.username)

(***************************************************************************)
(* C1.  In every reachable state no two stored users have the same email   *)
(* and no two stored users have the same username.                         *)
(***************************************************************************)
C1_UniqueUsers ==
    \A u, v \in users :
        u # v => u.email # v.email /\ u.username # v.username /\ u.id # v.id

\* Two users are stored and the unique index has just refused a third insert.
C1_Witness ==
    /\ Cardinality(users) = 2
    /\ \E r \in Answered("register") : r.err = UniqueConstraintError

(***************************************************************************)
(* C2.  A register request with valid input, on which no call on the store *)
(* threw, is answered 409 and has created no user when another stored user *)
(* has its email or its username; otherwise it is answered 201 and has     *)
(* created exactly the user of its body.                                   *)
(***************************************************************************)
C2_RegisterOutcome ==
    \A r \in Answered("register") :
        (~InvalidInput(r.body) /\ r.err = NoError) =>
            IF TakenByAnother(r)
            THEN /\ r.resp.status = 409
                 /\ r.newUser = Null
            ELSE /\ r.resp.status = 201
                 /\ r.newUser \in users
                 /\ r.newUser.username = r.body.username
                 /\ r.newUser.email = r.body.email
                 /\ r.resp.body.user.id = r.newUser.id
                 /\ r.resp.body.user.username = r.body.username
                 /\ r.resp.body.user.email = r.body.email
                 /\ Cardinality({u \in users : u.email = r.body.email}) = 1
                 /\ Cardinality({u \in users : u.username = r.body.username}) = 1

\* A registration was answered 201 earlier, and now a request whose email is
\* unused and whose username is taken has been answered 409.
C2_Witness ==
    /\ answered201 # {}
    /\ \E r \in Answered("register") :
          /\ r.resp.status = 409
          /\ \A u \in users : u.email # r.body.email
          /\ \E u \in users : u.username = r.body.username

(***************************************************************************)
(* C3.  When two register requests with the same email or the same         *)
(* username both pass the duplicate lookups, the one whose insert fails on *)
(* the duplicate conflict is answered 409.                                 *)
(***************************************************************************)
C3_ConflictAnswered409 ==
    \A r \in Answered("register") :
        r.err = UniqueConstraintError => r.resp.status = 409

(***************************************************************************)
(* C4.  Every register request rejected because its input is invalid is    *)
(* answered 400, never 500, and creates no user.                           *)
(***************************************************************************)
C4_InvalidInputAnswered400 ==
    \A r \in Answered("register") :
        (InvalidInput(r.body) /\ r.err \in {NoError, ValidationError}) =>
            /\ r.resp.status = 400
            /\ r.newUser = Null

(***************************************************************************)
(* C5.  A login returns a token only if its email is that of a stored user *)
(* and its password is the one that user registered with; a login with an  *)
(* unknown email or a wrong password is answered 401 with no token and     *)
(* with the same body in both cases; a login with a missing email or       *)
(* password is answered 400.                                               *)
(***************************************************************************)
\* The stored users with this email that registered with this password.
Holders(email, password) ==
    {u \in users : u.email = email /\ createdFrom[u.id].password = password}

C5_LoginChecksCredentials ==
    \A r \in Answered("login") :
        /\ "token" \in DOMAIN r.resp.body =>
              /\ r.resp.status = 200
              /\ Holders(r.body.email, r.body.password) # {}
        /\ r.resp.status = 200 => "token" \in DOMAIN r.resp.body
        /\ (r.body.email \in {Undefined, Empty} \/ r.body.password \in {Undefined, Empty})
              => r.resp.status = 400
        /\ ( /\ r.err = NoError
             /\ r.body.email \notin {Undefined, Empty}
             /\ r.body.password \notin {Undefined, Empty}
             /\ Holders(r.body.email, r.body.password) = {} )
              => /\ r.resp.status = 401
                 /\ r.resp.body = [error |-> "Invalid email or password"]

\* A login with the email of a stored user and another password has been
\* answered 401.
C5_Witness ==
    \E r \in Answered("login") :
        /\ r.resp.status = 401
        /\ \E u \in users : u.email = r.body.email

(***************************************************************************)
(* C6.  Round trip: once a register request with (username, email,         *)
(* password) has been answered 201, a login with that email and password,  *)
(* on which no call on the store threw, is answered 200 with a token       *)
(* signed with the secret whose payload carries that user's id, email and  *)
(* username.                                                               *)
(***************************************************************************)
C6_RegisterThenLogin ==
    \A r \in Answered("login") : \A id \in answered201 :
        ( /\ r.err = NoError
          /\ createdFrom[id].email = r.body.email
          /\ createdFrom[id].password = r.body.password )
        => /\ r.resp.status = 200
           /\ r.resp.body.token.payload =
                 [userId |-> id, email |-> createdFrom[id].email,
                  username |-> createdFrom[id].username]
           /\ r.resp.body.token.signedWith = JWT_SECRET
           /\ r.resp.body.user.id = id

\* A login has been answered 200 for a user whose registration was answered
\* 201.
C6_Witness ==
    \E r \in Answered("login") :
        /\ r.resp.status = 200
        /\ r.resp.body.user.id \in answered201

(***************************************************************************)
(* C7.  No response contains a password or a password hash: every user     *)
(* listed by list-users has only the fields id, username, email and        *)
(* createdAt, and the user objects of the 201 register response and of the *)
(* 200 login response, and the token's payload, have no password field.    *)
(***************************************************************************)
C7_NoPasswordInResponses ==
    /\ \A r \in Answered("list") :
          /\ DOMAIN r.resp.body \subseteq {"users", "count", "message", "error"}
          /\ \A i \in 1..Len(r.resp.body.users) :
                DOMAIN r.resp.body.users[i] = {"id", "username", "email", "createdAt"}
    /\ \A r \in Answered("register") :
          /\ DOMAIN r.resp.body \subseteq {"message", "user", "error"}
          /\ r.resp.status = 201 =>
                DOMAIN r.resp.body.user = {"id", "username", "email", "createdAt"}
    /\ \A r \in Answered("login") :
          /\ DOMAIN r.resp.body \subseteq {"message", "token", "user", "error"}
          /\ r.resp.status = 200 =>
                /\ DOMAIN r.resp.body.user = {"id", "username", "email"}
                /\ DOMAIN r.resp.body.token.payload = {"userId", "email", "username"}

\* A list-users request has been answered with two users.
C7_Witness ==
    \E r \in Answered("list") : r.resp.status = 200 /\ Len(r.resp.body.users) = 2

(***************************************************************************)
(* C8.  As claimed: a list-users request answered 200 returns exactly the  *)
(* stored users, who are exactly the users whose registration was answered *)
(* 201, with a count equal to their number, newest first.                  *)
(***************************************************************************)
ListedIds(r) == {r.resp.body.users[i].id : i \in 1..Len(r.resp.body.users)}

C8_ListIsAnswered201 ==
    \A r \in Answered("list") :
        r.resp.status = 200 =>
            /\ ListedIds(r) = {u.id : u \in users}
            /\ ListedIds(r) = answered201
            /\ r.resp.body.count = Len(r.resp.body.users)
            /\ \A i \in 1..Len(r.resp.body.users) :
                  \A j \in (i + 1)..Len(r.resp.body.users) :
                      r.resp.body.users[i].createdAt >= r.resp.body.users[j].createdAt

(***************************************************************************)
(* C8, amended.  A list-users request answered 200 returns exactly the     *)
(* stored users, each once, with the id, username, email and createdAt of  *)
(* its row: every user whose registration was answered 201, and besides    *)
(* them only users a register handler has inserted and is about to answer  *)
(* 201 for; the count is the number of users returned, and they are        *)
(* ordered by creation time, newest first.                                 *)
(***************************************************************************)
C8_ListIsStoredUsers ==
    \A r \in Answered("list") :
        r.resp.status = 200 =>
            LET list == r.resp.body.users
            IN /\ {list[i] : i \in 1..Len(list)} =
                      {[id |-> u.id, username |-> u.username, email |-> u.email,
                        createdAt |-> u.createdAt] : u \in users}
               /\ Len(list) = Cardinality(users)
               /\ r.resp.body.count = Len(list)
               /\ \A i \in 1..Len(list) : \A j \in (i + 1)..Len(list) :
                      list[i].createdAt >= list[j].createdAt
               /\ answered201 \subseteq ListedIds(r)
               /\ \A id \in ListedIds(r) \ answered201 :
                      \E c \in BagToSet(reqs) :
                          c.kind = "register" /\ c.pc = "created" /\ c.newUser.id = id

\* A list-users request has been answered with two users, the newer one
\* first, the older one the later row of the table.
C8_Witness ==
    \E r \in Answered("list") :
        /\ r.resp.status = 200
        /\ Len(r.resp.body.users) = 2
        /\ r.resp.body.users[1].createdAt > r.resp.body.users[2].createdAt
        /\ r.resp.body.users[1].id < r.resp.body.users[2].id

(***************************************************************************)
(* C9.  When a call on the store throws, the handler answers 500 with its  *)
(* fixed message, whatever the error; the 500 of list-users carries an     *)
(* empty users list and count 0.                                           *)
(***************************************************************************)
C9_ErrorsAnswered500 ==
    /\ \A r \in Answered("register") :
          r.err # NoError =>
              /\ r.resp.status = 500
              /\ r.resp.body =
                    [error |-> "Server error during registration. Please try again."]
    /\ \A r \in Answered("login") :
          r.err # NoError =>
              /\ r.resp.status = 500
              /\ r.resp.body = [error |-> "Server error during login. Please try again."]
    /\ \A r \in Answered("list") :
          r.err # NoError =>
              /\ r.resp.status = 500
              /\ r.resp.body =
                    [error |-> "Error retrieving users. Please try again later.",
                     users |-> <<>>, count |-> 0]

\* The SELECT of a list-users request has failed while users are stored.
C9_Witness ==
    /\ users # {}
    /\ \E r \in Answered("list") : r.err = ConnectionError

(***************************************************************************)
(* C10.  Every stored user's password is the bcrypt hash of the password   *)
(* given at its registration, never that password itself, and createUser   *)
(* is only ever called with such a hash.                                   *)
(***************************************************************************)
IsHashOf(hash, password) ==
    /\ hash # password
    /\ \E salt \in Salts : hash = <<"$2a$10$", salt>> \o password

C10_PasswordsHashed ==
    /\ \A u \in users : IsHashOf(u.password, createdFrom[u.id].password)
    /\ \A r \in BagToSet(reqs) :
          (r.kind = "register" /\ r.pc \in {"createUser", "created"}) =>
              IsHashOf(r.hashedPassword, r.body.password)

\* Users with different passwords are stored.
C10_Witness ==
    \E u, v \in users : createdFrom[u.id].password # createdFrom[v.id].password

(***************************************************************************)
(* C11.  As claimed: a register request answered 400, 409 or 500 has       *)
(* created no user, and the number of stored users always equals the       *)
(* number of 201 responses issued.                                          *)
(***************************************************************************)
C11_StoredEquals201 ==
    /\ \A r \in Answered("register") : r.resp.status # 201 => r.newUser = Null
    /\ Cardinality(users) = Cardinality(answered201)

(***************************************************************************)
(* C11, amended.  Frame: no step changes or removes a stored user; a step  *)
(* in which a login, list-users or register handler sends its response     *)
(* leaves the stored users unchanged; the stored users change only when    *)
(* the INSERT of a register handler adds exactly one user, the one of its  *)
(* request, and that handler sends 201 next; a register request answered   *)
(* 400, 409 or 500 has added none.  So the number of stored users always   *)
(* equals the number of 201 responses issued plus the number of register   *)
(* handlers that have inserted their user and not yet answered.            *)
(***************************************************************************)
\* The register activations whose INSERT has run and whose 201 is not sent.
Inserted == {r \in BagToSet(reqs) : r.kind = "register" /\ r.pc = "created"}

C11_Counts ==
    /\ \A r \in Answered("register") :
          IF r.resp.status = 201
          THEN r.newUser \in users /\ r.newUser.id \in answered201
          ELSE r.newUser = Null
    /\ \A r \in Inserted : CopiesIn(r, reqs) = 1 /\ r.newUser \in users
    /\ \A r, q \in Inserted : r # q => r.newUser.id # q.newUser.id
    /\ \A r \in Inserted : r.newUser.id \notin answered201
    /\ Cardinality(users) = Cardinality(answered201) + Cardinality(Inserted)

C11_Step ==
    /\ users \subseteq users'
    /\ (\E r \in BagToSet(reqs') : r.pc = "done" /\ ~BagIn(r, reqs)) => users' = users
    /\ (\E r \in BagToSet(Live) :
            r.kind \in {"login", "list"} /\ CopiesIn(r, reqs') < CopiesIn(r, reqs))
          => users' = users
    /\ users' # users =>
          \E r \in BagToSet(reqs) :
              /\ r.kind = "register"
              /\ r.pc = "createUser"
              /\ \E c \in BagToSet(reqs') :
                    /\ c = [r EXCEPT !.pc = "created", !.newUser = c.newUser]
                    /\ users' \ users = {c.newUser}
                    /\ c.newUser.username = r.body.username
                    /\ c.newUser.email = r.body.email
                    /\ reqs' = (Live (-) SetToBag({r})) (+) SetToBag({c})
    /\ Cardinality(answered201') # Cardinality(answered201) =>
          /\ Cardinality(answered201') = Cardinality(answered201) + 1
          /\ \E r \in Inserted : \E d \in BagToSet(reqs') :
                /\ d.pc = "done"
                /\ d.resp.status = 201
                /\ d.newUser = r.newUser
                /\ answered201' = answered201 \cup {r.newUser.id}

\* C11: the rows of users are those of the 201 responses and of the
\* insertions not yet answered, and only a successful registration adds one.
C11_Frame == [](C11_Counts) /\ [][C11_Step]_vars

\* Two users are stored, the registration of one answered 201 and the other
\* inserted and not yet answered.
C11_Witness ==
    /\ Cardinality(users) = 2
    /\ Cardinality(answered201) = 1
    /\ Inserted # {}

(***************************************************************************)
(* C12.  Every request to register, login or list-users eventually         *)
(* receives exactly one response, on every path including a store error;   *)
(* the status is one of 201/400/409/500 for register, 200/400/401/500 for  *)
(* login and 200/500 for list-users.                                       *)
(***************************************************************************)
\* The awaits of the handlers and the response, in the order of the code.
C12_Order ==
    <<"findUserByEmail", "findUserByUsername", "createUser", "created",
      "findAll", "done">>

C12_Position(pc) == CHOOSE i \in DOMAIN C12_Order : C12_Order[i] = pc

\* An activation holds a response exactly when it has sent it, there is one
\* such activation at most, any other waits at an await of its handler, and
\* the status of a response is one the handler can send.
C12_Statuses ==
    /\ \A r \in BagToSet(reqs) :
          /\ r.resp # Null <=> r.pc = "done"
          /\ r.pc # "done" => r \in WaitingActivations
          /\ r.pc = "done" => CopiesIn(r, reqs) = 1
    /\ Cardinality({r \in BagToSet(reqs) : r.pc = "done"}) <= 1
    /\ \A r \in Answered("register") : r.resp.status \in {201, 400, 409, 500}
    /\ \A r \in Answered("login") : r.resp.status \in {200, 400, 401, 500}
    /\ \A r \in Answered("list") : r.resp.status \in {200, 500}

\* A step removes from reqs the activation that had responded, which sends
\* nothing more, and at most one waiting activation, which is in reqs after
\* the step, for the same request, at a later await or with its response;
\* at most one request arrives.
C12_Step ==
    /\ \A r \in BagToSet(reqs) :
          CopiesIn(r, reqs') < CopiesIn(r, reqs) =>
              \/ r.pc = "done"
              \/ /\ CopiesIn(r, reqs') = CopiesIn(r, reqs) - 1
                 /\ \E q \in BagToSet(reqs') :
                       /\ q.kind = r.kind
                       /\ q.body = r.body
                       /\ C12_Position(q.pc) > C12_Position(r.pc)
                       /\ CopiesIn(q, reqs') > CopiesIn(q, Live)
                 /\ \A q \in BagToSet(Live) \ {r} :
                       CopiesIn(q, reqs') >= CopiesIn(q, reqs)
    /\ BagCardinality(reqs') <= BagCardinality(Live) + 1

\* No activation waits at an await for ever without a response to a request
\* like its own: again and again it is not there, or such a response has
\* just been sent.  With C12_Step, which lets an activation leave an await
\* only for a later one or for its response, every request is answered.
C12_Responds ==
    \A a \in WaitingActivations :
        []<>(~BagIn(a, reqs) \/ \E d \in Answered(a.kind) : d.body = a.body)

\* C12: every request is eventually answered, once, with a status of its
\* handler.
C12_OneResponse == [](C12_Statuses) /\ [][C12_Step]_vars /\ C12_Responds

\* The INSERT of a register request has failed on the connection and the
\* request has been answered 500.
C12_Witness ==
    \E r \in Answered("register") :
        /\ r.err = ConnectionError
        /\ r.hashedPassword # Empty
        /\ r.resp.status = 500

====
